---- MODULE Spec2Model ----
(***************************************************************************)
(* ConciliaPDF (src/main.py): the currency codec, the OCR text normalizer, *)
(* the PDF reader, the amount extractor, the spreadsheet totals and the    *)
(* App handlers.                                                           *)
(*                                                                         *)
(* A text is a sequence of one-character strings.  A Python float is a     *)
(* decimal record [m, e] standing for m * 10^-e; amounts with two decimal  *)
(* digits are integer cents.  A call's outcome is a record with exc = ""   *)
(* when it returned and exc = <exception class> when it raised.            *)
(***************************************************************************)
EXTENDS Integers, Sequences, FiniteSets, TLC

VARIABLES
    fn,           \* name of the last function applied ("" before any)
    entrada,      \* the argument drawn for the function applied; in the
                  \* App, the file lists of the last run
    saida,        \* the outcome of the last application
    OCR_ATIVADO,  \* main.py:34-39
    path_rec,     \* App.path_rec: None or the folder chosen
    path_desp,    \* App.path_desp
    itens,        \* the records of the last run
    planilha,     \* what salvar_excel wrote
    resumo,       \* the totals App.run shows
    status,       \* App.status label
    dialogo       \* title of the last message box

vars == <<fn, entrada, saida, OCR_ATIVADO, path_rec, path_desp, itens,
          planilha, resumo, status, dialogo>>

None == "None"

\* every variable the pure-function specifications leave alone
\* App.__init__, main.py:270-303
PlanilhaVazia ==
    [salva |-> FALSE, linhas |-> <<>>, total_receita |-> 0,
     total_despesa |-> 0, saldo |-> 0, resumo |-> <<>>]
ResumoVazio ==
    [feito |-> FALSE, tot_rec |-> 0, tot_desp |-> 0, saldo |-> 0,
     pendencias |-> 0, msg |-> <<>>]

AppInit ==
    /\ path_rec = None
    /\ path_desp = None
    /\ itens = <<>>
    /\ planilha = PlanilhaVazia
    /\ resumo = ResumoVazio
    /\ status = "Aguardando..."
    /\ dialogo = ""

AppIdle == OCR_ATIVADO = FALSE /\ AppInit

AppUnchanged ==
    UNCHANGED <<OCR_ATIVADO, path_rec, path_desp, itens, planilha, resumo,
                status, dialogo>>

-----------------------------------------------------------------------------
(* Texts *)

Digits == {"0", "1", "2", "3", "4", "5", "6", "7", "8", "9"}

DigitVal(c) ==
    CASE c = "0" -> 0 [] c = "1" -> 1 [] c = "2" -> 2 [] c = "3" -> 3
      [] c = "4" -> 4 [] c = "5" -> 5 [] c = "6" -> 6 [] c = "7" -> 7
      [] c = "8" -> 8 [] c = "9" -> 9

DigitChar(d) ==
    CASE d = 0 -> "0" [] d = 1 -> "1" [] d = 2 -> "2" [] d = 3 -> "3"
      [] d = 4 -> "4" [] d = 5 -> "5" [] d = 6 -> "6" [] d = 7 -> "7"
      [] d = 8 -> "8" [] d = 9 -> "9"

Whitespace == {" ", "\n", "\t"}

RECURSIVE Rep(_, _)
Rep(c, n) == IF n <= 0 THEN <<>> ELSE <<c>> \o Rep(c, n - 1)

StartsWith(s, p) == Len(s) >= Len(p) /\ SubSeq(s, 1, Len(p)) = p

\* `sub in s` for strings
Contains(s, sub) ==
    \E i \in 1..(Len(s) - Len(sub) + 1) : SubSeq(s, i, i + Len(sub) - 1) = sub

\* str.replace(old, new): every non-overlapping occurrence, left to right
RECURSIVE Replace(_, _, _)
Replace(s, old, new) ==
    IF Len(s) < Len(old) THEN s
    ELSE IF StartsWith(s, old)
         THEN new \o Replace(SubSeq(s, Len(old) + 1, Len(s)), old, new)
         ELSE <<Head(s)>> \o Replace(Tail(s), old, new)

\* str.upper() on the letters the model's texts use
UpperChar(c) ==
    CASE c = "a" -> "A" [] c = "b" -> "B" [] c = "c" -> "C" [] c = "d" -> "D"
      [] c = "e" -> "E" [] c = "f" -> "F" [] c = "i" -> "I" [] c = "l" -> "L"
      [] c = "n" -> "N" [] c = "o" -> "O" [] c = "p" -> "P" [] c = "s" -> "S"
      [] c = "t" -> "T" [] c = "x" -> "X" [] c = "é" -> "É"
      [] OTHER -> c

Upper(s) == [i \in 1..Len(s) |-> UpperChar(s[i])]

LowerChar(c) ==
    CASE c = "A" -> "a" [] c = "B" -> "b" [] c = "C" -> "c" [] c = "D" -> "d"
      [] c = "E" -> "e" [] c = "F" -> "f" [] c = "I" -> "i" [] c = "L" -> "l"
      [] c = "N" -> "n" [] c = "O" -> "o" [] c = "P" -> "p" [] c = "S" -> "s"
      [] c = "T" -> "t" [] c = "X" -> "x" [] c = "É" -> "é"
      [] OTHER -> c

Lower(s) == [i \in 1..Len(s) |-> LowerChar(s[i])]

\* str.strip(): leading and trailing whitespace removed, inner whitespace kept
RECURSIVE LStrip(_)
LStrip(s) ==
    IF s # <<>> /\ Head(s) \in Whitespace THEN LStrip(Tail(s)) ELSE s

RECURSIVE RStrip(_)
RStrip(s) ==
    IF s # <<>> /\ s[Len(s)] \in Whitespace
    THEN RStrip(SubSeq(s, 1, Len(s) - 1)) ELSE s

Strip(s) == RStrip(LStrip(s))

\* "\n".join(parts)
RECURSIVE Join(_)
Join(parts) ==
    IF parts = <<>> THEN <<>>
    ELSE IF Len(parts) = 1 THEN parts[1]
    ELSE parts[1] \o <<"\n">> \o Join(Tail(parts))

-----------------------------------------------------------------------------
(* Call outcomes and floats *)

Return(v) == [exc |-> "", val |-> v]
Raise(e) == [exc |-> e, val |-> None]

RECURSIVE Pow10(_)
Pow10(n) == IF n = 0 THEN 1 ELSE 10 * Pow10(n - 1)

RECURSIVE DigitsToNat(_)
DigitsToNat(s) ==
    IF s = <<>> THEN 0
    ELSE 10 * DigitsToNat(SubSeq(s, 1, Len(s) - 1)) + DigitVal(s[Len(s)])

Float(m, e) == [m |-> m, e |-> e]
Zero == Float(0, 0)
FromCents(c) == Float(c, 2)

\* comparison after aligning both to the larger number of decimals
Aligned(a, b) == a.m * Pow10((IF b.e > a.e THEN b.e ELSE a.e) - a.e)
FloatEq(a, b) == Aligned(a, b) = Aligned(b, a)
FloatGt(a, b) == Aligned(a, b) > Aligned(b, a)

\* float(s) for a string of digits and periods: one period at most and one
\* digit at least, ValueError otherwise
float(s) ==
    LET dots == SelectSeq(s, LAMBDA c : c = ".")
        digs == SelectSeq(s, LAMBDA c : c \in Digits)
        dot  == CHOOSE i \in 1..Len(s) : s[i] = "."
    IN IF Len(dots) > 1 \/ digs = <<>> THEN Raise("ValueError")
       ELSE IF dots = <<>> THEN Return(Float(DigitsToNat(digs), 0))
       ELSE Return(Float(DigitsToNat(digs), Len(s) - dot))

-----------------------------------------------------------------------------
(* Currency codec, main.py:68-95 *)

\* A name assigned anywhere in a Python function body is local to the whole
\* body and unbound until the assignment runs.  `clean` is first assigned on
\* line 76, so at line 73 it is still unbound.
Unbound == "<unbound>"
clean_at_entry == Unbound

\* lines 76-87
br_money_convert(raw) ==
    LET clean  == SelectSeq(raw, LAMBDA c : c \in Digits \cup {",", "."})
        clean2 == Replace(Replace(clean, <<".">>, <<>>), <<",">>, <<".">>)
        parsed == float(clean2)
    IN IF clean = <<>> THEN Return(Zero)
       ELSE IF parsed.exc = "ValueError" THEN Return(Zero)
       ELSE parsed

\* line 73 reads `clean` first: reading an unbound local raises
\* UnboundLocalError, which no handler in the function catches
br_money_to_float(raw) ==
    IF clean_at_entry = Unbound THEN Raise("UnboundLocalError")
    ELSE IF clean_at_entry = <<>> THEN Return(Zero)
    ELSE br_money_convert(raw)

\* f"{n:,}" for the integer part: groups of three digits from the right
RECURSIVE GroupThousands(_)
GroupThousands(n) ==
    IF n < 1000
    THEN (IF n >= 100 THEN <<DigitChar(n \div 100)>> ELSE <<>>)
         \o (IF n >= 10 THEN <<DigitChar((n \div 10) % 10)>> ELSE <<>>)
         \o <<DigitChar(n % 10)>>
    ELSE GroupThousands(n \div 1000)
         \o <<",", DigitChar((n % 1000) \div 100),
              DigitChar((n \div 10) % 10), DigitChar(n % 10)>>

\* f"{value:,.2f}" for a value of `cents` hundredths
FormatComma2f(cents) ==
    LET a == IF cents < 0 THEN -cents ELSE cents
    IN (IF cents < 0 THEN <<"-">> ELSE <<>>)
       \o GroupThousands(a \div 100)
       \o <<".", DigitChar((a \div 10) % 10), DigitChar(a % 10)>>

\* line 95
format_br(cents) ==
    Replace(Replace(Replace(FormatComma2f(cents), <<",">>, <<"X">>),
                    <<".">>, <<",">>), <<"X">>, <<".">>)

-----------------------------------------------------------------------------
(* The codec applied to drawn inputs *)

MaxRawLen == 3
MaxCents == 150

RawAlphabet == {"1", "5", ",", ".", "a", "$", " "}

RECURSIVE SeqsUpTo(_, _)
SeqsUpTo(S, n) ==
    IF n = 0 THEN {<<>>}
    ELSE LET shorter == SeqsUpTo(S, n - 1)
         IN shorter \cup {<<c>> \o s : c \in S, s \in shorter}

RS_1234_56 == <<"R", "$", " ", "1", ".", "2", "3", "4", ",", "5", "6">>
T_abc == <<"a", "b", "c">>

RawTexts == SeqsUpTo(RawAlphabet, MaxRawLen) \cup {RS_1234_56, T_abc}

\* every amount up to MaxCents, and amounts with one and two thousands groups
Amounts ==
    (0..MaxCents) \cup {3788, 99999, 100000, 123456, 14200000, 99999999,
                        100000000, 123456789}

CodecInit ==
    /\ fn = ""
    /\ entrada \in [tipo : {"texto"}, texto : RawTexts]
                 \cup [tipo : {"valor"}, centavos : Amounts]
    /\ saida = None
    /\ AppIdle

CallBrMoneyToFloat ==
    /\ fn = "" /\ entrada.tipo = "texto"
    /\ fn' = "br_money_to_float"
    /\ saida' = br_money_to_float(entrada.texto)
    /\ UNCHANGED entrada /\ AppUnchanged

CallFormatBr ==
    /\ fn = "" /\ entrada.tipo = "valor"
    /\ fn' = "format_br"
    /\ saida' = Return(format_br(entrada.centavos))
    /\ UNCHANGED entrada /\ AppUnchanged

\* br_money_to_float(format_br(x))
CallBrMoneyOfFormatted ==
    /\ fn = "format_br"
    /\ fn' = "br_money_to_float(format_br)"
    /\ saida' = br_money_to_float(saida.val)
    /\ UNCHANGED entrada /\ AppUnchanged

CodecNext == CallBrMoneyToFloat \/ CallFormatBr \/ CallBrMoneyOfFormatted

SpecCodec == CodecInit /\ [][CodecNext]_vars

HasCodecChar(t) == \E i \in 1..Len(t) : t[i] \in Digits \cup {",", "."}

\* C2: br_money_to_float is total: on every input string it returns a number
\* and never raises; it returns 0 for the empty string and for text with no
\* digit, comma or period, and 1234.56 for "R$ 1.234,56".
C2_ParseTotal ==
    fn = "br_money_to_float" =>
        /\ saida.exc = ""
        /\ (~HasCodecChar(entrada.texto) => FloatEq(saida.val, Zero))
        /\ (entrada.texto = RS_1234_56 =>
                FloatEq(saida.val, FromCents(123456)))

\* C7: br_money_to_float(format_br(x)) = x for every non-negative amount x
\* of two decimal digits.
C7_RoundTrip ==
    fn = "br_money_to_float(format_br)" =>
        /\ saida.exc = ""
        /\ FloatEq(saida.val, FromCents(entrada.centavos))

-----------------------------------------------------------------------------
(* Text normalizer, main.py:97-110 *)

\* the normalizer without its "$=" replacement
clean_ocr_text_sem_cifrao(text) ==
    IF text = <<>> THEN <<>>
    ELSE LET t == Replace(Replace(Replace(text, <<"|">>, <<>>),
                                  <<"!">>, <<"1">>), <<"l">>, <<"1">>)
         IN Replace(t, <<"=">>, <<" ", "=", " ">>)

clean_ocr_text(text) ==
    IF text = <<>> THEN <<>>
    ELSE LET t == Replace(Replace(Replace(text, <<"|">>, <<>>),
                                  <<"!">>, <<"1">>), <<"l">>, <<"1">>)
         IN Replace(Replace(t, <<"$", "=">>, <<" ">>),
                    <<"=">>, <<" ", "=", " ">>)

MaxNormLen == 3

NormAlphabet == {"|", "!", "l", "$", "=", "a", " "}

NormInit ==
    /\ fn = ""
    /\ entrada \in [tipo : {"texto"}, texto : SeqsUpTo(NormAlphabet, MaxNormLen)]
    /\ saida = None
    /\ AppIdle

CallCleanOcrText ==
    /\ fn = ""
    /\ fn' = "clean_ocr_text"
    /\ saida' = [exc |-> "", val |-> clean_ocr_text(entrada.texto),
                 antes |-> entrada.texto]
    /\ UNCHANGED entrada /\ AppUnchanged

\* clean_ocr_text(clean_ocr_text(t)); `antes` keeps clean_ocr_text(t)
CallCleanOcrTextAgain ==
    /\ fn = "clean_ocr_text"
    /\ fn' = "clean_ocr_text(clean_ocr_text)"
    /\ saida' = [exc |-> "", val |-> clean_ocr_text(saida.val),
                 antes |-> saida.val]
    /\ UNCHANGED entrada /\ AppUnchanged

NormNext == CallCleanOcrText \/ CallCleanOcrTextAgain

SpecNorm == NormInit /\ [][NormNext]_vars

\* once "|" is removed, every "=" of t directly follows a "$"
NoBareEquals(t) ==
    LET u == Replace(t, <<"|">>, <<>>)
    IN \A i \in 1..Len(u) : u[i] = "=" => (i > 1 /\ u[i - 1] = "$")

\* C8 as claimed: clean_ocr_text(clean_ocr_text(t)) = clean_ocr_text(t) for
\* every text t, texts with "=" or "$=" included.
C8_Idempotent ==
    fn = "clean_ocr_text(clean_ocr_text)" => saida.val = saida.antes

\* C8 amended: the second application changes nothing exactly on the texts
\* with no bare "=" (every "=" is the tail of a "$=" once "|" is removed).
C8_IdempotentIffNoBareEquals ==
    fn = "clean_ocr_text(clean_ocr_text)" =>
        ((saida.val = saida.antes) <=> NoBareEquals(entrada.texto))

\* a text with "$=" cleaned twice, the second time without effect
C8_Witness ==
    /\ fn = "clean_ocr_text(clean_ocr_text)"
    /\ Contains(entrada.texto, <<"$", "=">>)
    /\ saida.val = saida.antes

-----------------------------------------------------------------------------
(* Amount extractor, main.py:137-190 *)

DigitAt(s, k) == k >= 1 /\ k <= Len(s) /\ s[k] \in Digits

\* (?:\.\d{3}) at position p
GroupAt(s, p) ==
    p <= Len(s) /\ s[p] = "." /\ DigitAt(s, p + 1) /\ DigitAt(s, p + 2)
        /\ DigitAt(s, p + 3)

RECURSIVE MaxGroups(_, _)
MaxGroups(s, p) == IF GroupAt(s, p) THEN 1 + MaxGroups(s, p + 4) ELSE 0

\* ,\d{2} at position p
TailAt(s, p) ==
    p <= Len(s) /\ s[p] = "," /\ DigitAt(s, p + 1) /\ DigitAt(s, p + 2)

SetMax(S) == CHOOSE x \in S : \A y \in S : y <= x

\* the match that starts at i with n leading digits: its length, 0 if none.
\* The group repetition is greedy and backtracks.
TryDigits(s, i, n) ==
    IF \A k \in i..(i + n - 1) : DigitAt(s, k)
    THEN LET ks == {k \in 0..MaxGroups(s, i + n) : TailAt(s, i + n + 4 * k)}
         IN IF ks = {} THEN 0 ELSE n + 4 * SetMax(ks) + 3
    ELSE 0

\* \d{1,3}(?:\.\d{3})*,\d{2} at position i: \d{1,3} is greedy, so three
\* digits are tried first, then two, then one
MatchAt(s, i) ==
    IF TryDigits(s, i, 3) > 0 THEN TryDigits(s, i, 3)
    ELSE IF TryDigits(s, i, 2) > 0 THEN TryDigits(s, i, 2)
    ELSE TryDigits(s, i, 1)

\* re.findall: leftmost matches, scanning on after each one
RECURSIVE FindAllFrom(_, _)
FindAllFrom(s, i) ==
    IF i > Len(s) THEN <<>>
    ELSE LET m == MatchAt(s, i)
         IN IF m > 0
            THEN <<SubSeq(s, i, i + m - 1)>> \o FindAllFrom(s, i + m)
            ELSE FindAllFrom(s, i + 1)

\* line 153
todos_valores(text_clean) == FindAllFrom(text_clean, 1)

NOTA_DE_DEBITO ==
    <<"N", "O", "T", "A", " ", "D", "E", " ", "D", "É", "B", "I", "T", "O">>
PENALIDADE == <<"P", "E", "N", "A", "L", "I", "D", "A", "D", "E">>
NOTA_FISCAL == <<"N", "O", "T", "A", " ", "F", "I", "S", "C", "A", "L">>

\* lines 140-148
eh_documento_oficial(text) ==
    LET text_upper == Upper(clean_ocr_text(text))
    IN \/ Contains(text_upper, NOTA_DE_DEBITO)
       \/ Contains(text_upper, PENALIDADE)
       \/ Contains(text_upper, NOTA_FISCAL)

Anos == {Float(2024, 0), Float(2025, 0), Float(2026, 0), Float(2027, 0)}

\* lines 158-177: the loop over the candidates; an exception of
\* br_money_to_float leaves the loop and the function
RECURSIVE lista_floats(_, _)
lista_floats(valores, oficial) ==
    IF valores = <<>> THEN Return(<<>>)
    ELSE LET f == br_money_to_float(Head(valores))
         IN IF f.exc # "" THEN Raise(f.exc)
            ELSE LET resto == lista_floats(Tail(valores), oficial)
                     limite == IF oficial THEN Zero ELSE Float(50, 0)
                 IN IF resto.exc # "" THEN resto
                    ELSE IF \E a \in Anos : FloatEq(f.val, a) THEN resto
                    ELSE IF FloatGt(f.val, limite)
                         THEN Return(<<f.val>> \o resto.val)
                         ELSE resto

\* max(lista_floats)
FloatMax(fs) ==
    fs[CHOOSE i \in 1..Len(fs) : \A j \in 1..Len(fs) : ~FloatGt(fs[j], fs[i])]

NaoIdentificado == <<Zero, "Valor não identificado">>

extrair_valor(text) ==
    LET text_clean == clean_ocr_text(text)
        oficial    == eh_documento_oficial(text)
        lista      == lista_floats(todos_valores(text_clean), oficial)
    IN IF lista.exc # "" THEN Raise(lista.exc)
       ELSE IF lista.val # <<>>
            THEN Return(<<FloatMax(lista.val),
                          IF oficial THEN "Maior Valor (Modo Sensível)"
                          ELSE "Maior Valor (>50)">>)
            ELSE Return(NaoIdentificado)

-----------------------------------------------------------------------------
(* The extractor applied to drawn texts: up to MaxTokens tokens (keywords in
   several spellings, figures, a date), joined by single spaces *)

MaxTokens == 3

Keywords == {NOTA_DE_DEBITO, PENALIDADE, NOTA_FISCAL}

KeywordTokens ==
    {NOTA_FISCAL, Lower(NOTA_FISCAL), <<"N", "o", "t", "a", " ", "F", "i", "s", "c", "a", "l">>,
     PENALIDADE, Lower(PENALIDADE), NOTA_DE_DEBITO, Lower(NOTA_DE_DEBITO)}

F_37_88 == <<"3", "7", ",", "8", "8">>
F_2_025_00 == <<"2", ".", "0", "2", "5", ",", "0", "0">>
F_2025_00 == <<"2", "0", "2", "5", ",", "0", "0">>
F_25_12_2025 == <<"2", "5", "/", "1", "2", "/", "2", "0", "2", "5">>
F_51_00 == <<"5", "1", ",", "0", "0">>
F_1_234_56 == <<"1", ".", "2", "3", "4", ",", "5", "6">>

\* figures that denote a calendar year: a date, and a year in monetary shape
YearFigures == {F_25_12_2025, F_2_025_00, F_2025_00}

Figures == YearFigures \cup {F_37_88, F_51_00, F_1_234_56}

Tokens == KeywordTokens \cup Figures

RECURSIVE JoinSpace(_)
JoinSpace(parts) ==
    IF parts = <<>> THEN <<>>
    ELSE IF Len(parts) = 1 THEN parts[1]
    ELSE parts[1] \o <<" ">> \o JoinSpace(Tail(parts))

ExtractInit ==
    /\ fn = ""
    /\ \E toks \in SeqsUpTo(Tokens, MaxTokens) :
           entrada = [tipo |-> "texto", tokens |-> toks,
                      texto |-> JoinSpace(toks)]
    /\ saida = None
    /\ AppIdle

\* `oficial` keeps the local eh_documento_oficial, set on line 148 before
\* any candidate is converted
CallExtrairValor ==
    /\ fn = ""
    /\ fn' = "extrair_valor"
    /\ saida' = [exc |-> extrair_valor(entrada.texto).exc,
                 val |-> extrair_valor(entrada.texto).val,
                 oficial |-> eh_documento_oficial(entrada.texto)]
    /\ UNCHANGED entrada /\ AppUnchanged

ExtractNext == CallExtrairValor

SpecExtract == ExtractInit /\ [][ExtractNext]_vars

Range(f) == {f[i] : i \in DOMAIN f}

\* the value in cents of a figure of monetary shape: its digits
FigureCents(v) == DigitsToNat(SelectSeq(v, LAMBDA c : c \in Digits))

\* what C1 describes, in cents: the candidates that are no year and exceed
\* the mode's limit
KeptCents(text, sensitive) ==
    {c \in {FigureCents(v) : v \in Range(todos_valores(clean_ocr_text(text)))} :
        /\ c \notin {202400, 202500, 202600, 202700}
        /\ c > (IF sensitive THEN 0 ELSE 5000)}

HasUpperKeyword(text) == \E k \in Keywords : Contains(text, k)

\* C1: extrair_valor returns the largest candidate that is no year and is
\* above 0 (sensitive mode) or above 50 (otherwise), labelled by the mode, and
\* (0, "Valor não identificado") when none is kept; "NOTA FISCAL 37,88" gives
\* 37.88.
C1_MaiorValor ==
    fn = "extrair_valor" =>
        LET kept == KeptCents(entrada.texto, saida.oficial)
        IN /\ saida.exc = ""
           /\ IF kept = {} THEN saida.val = NaoIdentificado
              ELSE /\ FloatEq(saida.val[1], FromCents(SetMax(kept)))
                   /\ saida.val[2] = (IF saida.oficial
                                      THEN "Maior Valor (Modo Sensível)"
                                      ELSE "Maior Valor (>50)")
           /\ (entrada.tokens = <<NOTA_FISCAL, F_37_88>> =>
                  FloatEq(saida.val[1], FromCents(3788)))

\* C6: a text whose only figures are year figures (a date, "2.025,00",
\* "2025,00") yields (0, "Valor não identificado") in both modes.
C6_AnoNuncaValor ==
    (/\ fn = "extrair_valor"
     /\ Range(entrada.tokens) \cap Figures # {}
     /\ Range(entrada.tokens) \cap Figures \subseteq YearFigures)
        => (saida.exc = "" /\ saida.val = NaoIdentificado)

\* C10: a text that holds a keyword in any mix of upper and lower case is
\* extracted in sensitive mode.
C10_CaseIndependent ==
    (fn = "extrair_valor" /\ HasUpperKeyword(Upper(entrada.texto)))
        => saida.oficial

-----------------------------------------------------------------------------
(* PDF reader, main.py:114-133 *)

(* A PDF is what pdfplumber and pytesseract answer for it:
     abre       pdfplumber.open succeeds
     paginas    per page: extract ("texto", "None" or "erro": what
                extract_text() gives), texto (the text it returns) and
                imagem_ok (to_image succeeds)
     ocr_ok     pytesseract.image_to_string succeeds
     ocr_texto  the text it recognizes
     fecha      leaving the with block (closing the file) succeeds
   Every failure is an exception of class Exception. *)

LIMIAR == 50

Prov(tag, detalhe) == [tag |-> tag, detalhe |-> detalhe]

\* p.extract_text() or ""
texto_da_pagina(p) == IF p.extract = "texto" THEN p.texto ELSE <<>>

\* lines 117-120
texto_digital(pdf) ==
    Join([i \in 1..Len(pdf.paginas) |-> texto_da_pagina(pdf.paginas[i])])

\* the test of line 122 with >= for >
texto_suficiente_ge(texto) == Len(Strip(texto)) >= LIMIAR

\* line 122
texto_suficiente(texto) == Len(Strip(texto)) > LIMIAR

\* lines 117-130, inside the with block; ocr records whether
\* pytesseract.image_to_string was called
corpo_with(pdf, ocr_ativado) ==
    IF \E i \in 1..Len(pdf.paginas) : pdf.paginas[i].extract = "erro"
    THEN [exc |-> "ExtractError", val |-> None, ocr |-> FALSE]
    ELSE IF texto_suficiente(texto_digital(pdf))
    THEN [exc |-> "", ocr |-> FALSE,
          val |-> <<texto_digital(pdf), Prov("TEXTO_DIGITAL", "")>>]
    ELSE IF ~ocr_ativado
    THEN [exc |-> "", ocr |-> FALSE,
          val |-> <<<<>>, Prov("FALHA", "É imagem e Tesseract não foi achado.")>>]
    ELSE IF pdf.paginas = <<>>
    THEN [exc |-> "IndexError", val |-> None, ocr |-> FALSE]
    ELSE IF ~pdf.paginas[1].imagem_ok
    THEN [exc |-> "ImageError", val |-> None, ocr |-> FALSE]
    ELSE IF ~pdf.ocr_ok
    THEN [exc |-> "TesseractError", val |-> None, ocr |-> TRUE]
    ELSE [exc |-> "", ocr |-> TRUE,
          val |-> <<pdf.ocr_texto, Prov("OCR (IA Visual)", "")>>]

\* lines 116-130: open, the block, and the close on the way out, whose
\* exception replaces the block's outcome
corpo_try(pdf, ocr_ativado) ==
    IF ~pdf.abre THEN [exc |-> "OpenError", val |-> None, ocr |-> FALSE]
    ELSE IF ~pdf.fecha
         THEN [exc |-> "CloseError", val |-> None,
               ocr |-> corpo_with(pdf, ocr_ativado).ocr]
         ELSE corpo_with(pdf, ocr_ativado)

\* the reader without its except clause
ler_conteudo_pdf_sem_except(pdf, ocr_ativado) == corpo_try(pdf, ocr_ativado)

\* lines 115-133: except Exception turns every failure into ("", ERRO LEITURA)
ler_conteudo_pdf(pdf, ocr_ativado) ==
    LET r == corpo_try(pdf, ocr_ativado)
    IN IF r.exc # ""
       THEN [exc |-> "", ocr |-> r.ocr,
             val |-> <<<<>>, Prov("ERRO LEITURA", r.exc)>>]
       ELSE r

MaxPages == 2

X(n) == Rep("x", n)

\* page texts around the 50-character limit: short and long runs, a run
\* split by a space, a run between spaces, whitespace only
PageTexts ==
    {<<>>, X(25), X(26), X(50), X(51),
     X(25) \o <<" ">> \o X(25),
     <<" ">> \o X(50) \o <<"\n">>,
     Rep(" ", 60)}

Pages ==
    [extract : {"texto"}, texto : PageTexts, imagem_ok : {TRUE}]
        \cup [extract : {"None", "erro"}, texto : {<<>>}, imagem_ok : {TRUE}]
        \cup [extract : {"None"}, texto : {<<>>}, imagem_ok : {FALSE}]

Pdfs ==
    [abre : BOOLEAN, fecha : BOOLEAN, ocr_ok : BOOLEAN,
     ocr_texto : {NOTA_FISCAL \o <<" ">> \o F_37_88},
     paginas : SeqsUpTo(Pages, MaxPages)]

ReaderInit ==
    /\ fn = ""
    /\ entrada \in [tipo : {"pdf"}, pdf : Pdfs]
    /\ saida = None
    /\ OCR_ATIVADO \in BOOLEAN
    /\ AppInit

CallLerConteudoPdf ==
    /\ fn = ""
    /\ fn' = "ler_conteudo_pdf"
    /\ saida' = ler_conteudo_pdf(entrada.pdf, OCR_ATIVADO)
    /\ UNCHANGED entrada /\ AppUnchanged

ReaderNext == CallLerConteudoPdf

SpecReader == ReaderInit /\ [][ReaderNext]_vars

\* the embedded text of every page was obtained: the PDF opened, no
\* extract_text() failed, the file closed
TextoObtido(pdf) ==
    /\ pdf.abre /\ pdf.fecha
    /\ \A i \in 1..Len(pdf.paginas) : pdf.paginas[i].extract # "erro"

NonWhitespace(t) == Len(SelectSeq(t, LAMBDA c : c \notin Whitespace))

\* C5: ler_conteudo_pdf never propagates an exception: whatever fails, it
\* returns (text, provenance) as digital text, recognized image or failure,
\* and every failure carries the empty text.
C5_NuncaPropaga ==
    fn = "ler_conteudo_pdf" =>
        /\ saida.exc = ""
        /\ saida.val[2].tag \in
               {"TEXTO_DIGITAL", "OCR (IA Visual)", "FALHA", "ERRO LEITURA"}
        /\ (saida.val[2].tag \in {"FALHA", "ERRO LEITURA"} =>
               saida.val[1] = <<>>)

\* a PDF with no page read with OCR on: pages[0] fails inside the reader
C5_Witness ==
    /\ fn = "ler_conteudo_pdf"
    /\ entrada.pdf.abre /\ entrada.pdf.paginas = <<>> /\ OCR_ATIVADO
    /\ saida.exc = ""
    /\ saida.val = <<<<>>, Prov("ERRO LEITURA", "IndexError")>>

\* C9 as claimed: TEXTO_DIGITAL exactly when the embedded text has more than
\* 50 non-whitespace characters.
C9_NonWhitespaceOver50 ==
    (fn = "ler_conteudo_pdf" /\ TextoObtido(entrada.pdf)) =>
        (saida.val[2].tag = "TEXTO_DIGITAL"
            <=> NonWhitespace(texto_digital(entrada.pdf)) > 50)

\* C9 amended: TEXTO_DIGITAL exactly when the embedded text was obtained and
\* its length without leading and trailing whitespace exceeds 50; then the
\* text is the embedded text and recognition is not invoked; at 50 or less
\* with OCR_ATIVADO false the result is the empty text and FALHA.
C9_StrippedOver50 ==
    fn = "ler_conteudo_pdf" =>
        LET td == texto_digital(entrada.pdf)
            n  == Len(Strip(td))
        IN /\ saida.val[2].tag = "TEXTO_DIGITAL"
                  <=> (TextoObtido(entrada.pdf) /\ n > 50)
           /\ (saida.val[2].tag = "TEXTO_DIGITAL" =>
                  saida.val[1] = td /\ ~saida.ocr)
           /\ (TextoObtido(entrada.pdf) /\ n <= 50 /\ ~OCR_ATIVADO =>
                  saida.val = <<<<>>, Prov("FALHA",
                      "É imagem e Tesseract não foi achado.")>>)

\* two pages of 25 characters: 50 non-whitespace characters, 51 with the
\* newline that joins them, returned as digital text
C9_Witness ==
    /\ fn = "ler_conteudo_pdf"
    /\ Len(entrada.pdf.paginas) = 2
    /\ NonWhitespace(texto_digital(entrada.pdf)) = 50
    /\ saida.val[2].tag = "TEXTO_DIGITAL"
    /\ ~saida.ocr

-----------------------------------------------------------------------------
(* Spreadsheet and totals, main.py:195-264 and 338-348.  A PdfItem is a
   record [file_name, file_path, category, amount, status, method], its
   amount in cents. *)

RS(cents) == <<"R", "$", " ">> \o format_br(cents)

\* lines 209-212
linha_do_item(i) ==
    <<i.file_name, i.category, RS(i.amount), i.status, i.method, i.file_path>>

\* the accumulation of lines 204-219 without the status test of line 215
RECURSIVE total_sem_status(_, _)
total_sem_status(its, categoria) ==
    IF its = <<>> THEN 0
    ELSE LET i == its[Len(its)]
             antes == total_sem_status(SubSeq(its, 1, Len(its) - 1), categoria)
         IN IF i.category = categoria THEN antes + i.amount ELSE antes

\* lines 204-219: total_receita / total_despesa after the loop
RECURSIVE total_da_planilha(_, _)
total_da_planilha(its, categoria) ==
    IF its = <<>> THEN 0
    ELSE LET i == its[Len(its)]
             antes == total_da_planilha(SubSeq(its, 1, Len(its) - 1), categoria)
         IN IF i.status = "OK" /\ i.category = categoria
            THEN antes + i.amount ELSE antes

\* lines 195-264: the rows and the summary block written to the workbook
salvar_excel(its) ==
    LET total_receita == total_da_planilha(its, "Receita")
        total_despesa == total_da_planilha(its, "Despesa")
        saldo         == total_receita - total_despesa
    IN [salva |-> TRUE,
        linhas |-> [k \in 1..Len(its) |-> linha_do_item(its[k])],
        total_receita |-> total_receita,
        total_despesa |-> total_despesa,
        saldo |-> saldo,
        resumo |-> <<RS(total_receita), RS(total_despesa), RS(saldo)>>]

\* sum(i.amount for i in itens if i.category == categoria and i.status == "OK")
RECURSIVE soma_ok(_, _)
soma_ok(its, categoria) ==
    IF its = <<>> THEN 0
    ELSE (IF Head(its).category = categoria /\ Head(its).status = "OK"
          THEN Head(its).amount ELSE 0) + soma_ok(Tail(its), categoria)

\* sum(1 for i in itens if i.status != "OK")
RECURSIVE conta_pendencias(_)
conta_pendencias(its) ==
    IF its = <<>> THEN 0
    ELSE (IF Head(its).status # "OK" THEN 1 ELSE 0)
         + conta_pendencias(Tail(its))

\* lines 338-348
resumo_run(its) ==
    LET tot_rec  == soma_ok(its, "Receita")
        tot_desp == soma_ok(its, "Despesa")
        saldo    == tot_rec - tot_desp
    IN [feito |-> TRUE, tot_rec |-> tot_rec, tot_desp |-> tot_desp,
        saldo |-> saldo, pendencias |-> conta_pendencias(its),
        msg |-> <<format_br(tot_rec), format_br(tot_desp), format_br(saldo)>>]

MaxItens == 3

PdfItems ==
    [file_name : {"a.pdf"}, file_path : {<<"/docs", "a.pdf">>},
     category : {"Receita", "Despesa"}, amount : {3788, 14200000},
     status : {"OK", "REVISAR", "ERRO"}, method : {""}]

TotalsInit ==
    /\ fn = ""
    /\ entrada = [tipo |-> "itens"]
    /\ saida = None
    /\ OCR_ATIVADO = FALSE
    /\ path_rec = None
    /\ path_desp = None
    /\ itens \in SeqsUpTo(PdfItems, MaxItens)
    /\ planilha = PlanilhaVazia
    /\ resumo = ResumoVazio
    /\ status = "Aguardando..."
    /\ dialogo = ""

CallSalvarExcel ==
    /\ ~planilha.salva
    /\ planilha' = salvar_excel(itens)
    /\ UNCHANGED <<fn, entrada, saida, OCR_ATIVADO, path_rec, path_desp,
                   itens, resumo, status, dialogo>>

CallResumoRun ==
    /\ ~resumo.feito
    /\ resumo' = resumo_run(itens)
    /\ UNCHANGED <<fn, entrada, saida, OCR_ATIVADO, path_rec, path_desp,
                   itens, planilha, status, dialogo>>

TotalsNext == CallSalvarExcel \/ CallResumoRun

SpecTotals == TotalsInit /\ [][TotalsNext]_vars

RECURSIVE SumAmounts(_, _)
SumAmounts(its, S) ==
    IF S = {} THEN 0
    ELSE LET k == CHOOSE k \in S : TRUE
         IN its[k].amount + SumAmounts(its, S \ {k})

OkOf(its, categoria) ==
    {k \in 1..Len(its) : its[k].status = "OK" /\ its[k].category = categoria}

\* C4: the revenue and expense totals are the sums of the amounts of the OK
\* records of the category, every record that is not OK counts once as
\* pending and adds to no total, the balance is revenue minus expense, and
\* the totals of salvar_excel are those of App.run.
C4_Totais ==
    (planilha.salva /\ resumo.feito) =>
        /\ resumo.tot_rec = SumAmounts(itens, OkOf(itens, "Receita"))
        /\ resumo.tot_desp = SumAmounts(itens, OkOf(itens, "Despesa"))
        /\ resumo.pendencias =
               Cardinality({k \in 1..Len(itens) : itens[k].status # "OK"})
        /\ resumo.saldo = resumo.tot_rec - resumo.tot_desp
        /\ planilha.total_receita = resumo.tot_rec
        /\ planilha.total_despesa = resumo.tot_desp
        /\ planilha.saldo = resumo.saldo
        /\ planilha.resumo = <<RS(resumo.tot_rec), RS(resumo.tot_desp),
                               RS(resumo.saldo)>>

\* both totals computed over records of both categories, one of them not OK
C4_Witness ==
    /\ planilha.salva /\ resumo.feito
    /\ resumo.tot_rec > 0 /\ resumo.tot_desp > 0 /\ resumo.pendencias > 0
    /\ resumo.saldo < 0

-----------------------------------------------------------------------------
(* Batch processing.  main.py calls processar_lista on line 332 and does not
   define it; it is modelled from section 4.5 of the specification: per file
   the reader, then the extractor, and a status; an exception of either is
   caught for that file alone. *)

(* The file system: the PDF files a folder may hold *)

PdfDigital(texto) ==
    [abre |-> TRUE, fecha |-> TRUE, ocr_ok |-> TRUE, ocr_texto |-> <<>>,
     paginas |-> <<[extract |-> "texto", texto |-> texto, imagem_ok |-> TRUE]>>]

\* by name: a digital invoice with an amount, a file that does not open, a
\* scanned page
Nomes == {"nota.pdf", "quebrado.pdf", "imagem.pdf"}

\* what is in each file
PdfDe(nome) ==
    CASE nome = "nota.pdf" ->
             PdfDigital(NOTA_FISCAL \o <<" ">> \o F_37_88 \o <<" ">> \o X(40))
      [] nome = "quebrado.pdf" ->
             [abre |-> FALSE, fecha |-> TRUE, ocr_ok |-> TRUE,
              ocr_texto |-> <<>>, paginas |-> <<>>]
      [] nome = "imagem.pdf" ->
             [abre |-> TRUE, fecha |-> TRUE, ocr_ok |-> TRUE,
              ocr_texto |-> X(9),
              paginas |-> <<[extract |-> "None", texto |-> <<>>,
                             imagem_ok |-> TRUE]>>]

\* an extracted value in cents (the candidates have two decimals)
Cents(f) == f.m * Pow10(2 - f.e)

PdfItem(arquivo, category, amount, st, method) ==
    [file_name |-> arquivo, file_path |-> <<"/docs", arquivo>>,
     category |-> category, amount |-> amount, status |-> st,
     method |-> method]

processar_arquivo(arquivo, category, ocr_ativado) ==
    LET leitura == ler_conteudo_pdf(PdfDe(arquivo), ocr_ativado)
    IN IF leitura.exc # ""
       THEN PdfItem(arquivo, category, 0, "ERRO", leitura.exc)
       ELSE IF leitura.val[1] = <<>>
       THEN PdfItem(arquivo, category, 0, "REVISAR", leitura.val[2].tag)
       ELSE LET extracao == extrair_valor(leitura.val[1])
            IN IF extracao.exc # ""
               THEN PdfItem(arquivo, category, 0, "ERRO", extracao.exc)
               ELSE IF FloatGt(extracao.val[1], Zero)
               THEN PdfItem(arquivo, category, Cents(extracao.val[1]), "OK",
                            extracao.val[2])
               ELSE PdfItem(arquivo, category, 0, "REVISAR", extracao.val[2])

\* a file's record depends on the file, the category and OCR_ATIVADO alone:
\* processar_arquivo tabulated once
registros ==
    {<<a, c, o, processar_arquivo(a, c, o)>> :
        a \in Nomes, c \in {"Receita", "Despesa"}, o \in BOOLEAN}

registro(arquivo, category, ocr_ativado) ==
    (CHOOSE t \in registros :
        t[1] = arquivo /\ t[2] = category /\ t[3] = ocr_ativado)[4]

processar_lista(arquivos, category, ocr_ativado) ==
    [k \in 1..Len(arquivos) |-> registro(arquivos[k], category, ocr_ativado)]

-----------------------------------------------------------------------------
(* App, main.py:269-351 *)

\* line 332 with the expense folder left out
itens_so_receita(arquivos_rec, arquivos_desp, ocr_ativado) ==
    processar_lista(arquivos_rec, "Receita", ocr_ativado)

\* line 332
itens_de_run(arquivos_rec, arquivos_desp, ocr_ativado) ==
    processar_lista(arquivos_rec, "Receita", ocr_ativado)
        \o processar_lista(arquivos_desp, "Despesa", ocr_ativado)

MaxFiles == 2

\* rglob("*.pdf") (lines 329-330): what a folder holds when it is listed,
\* distinct files in any order
Pastas ==
    {p \in SeqsUpTo(Nomes, MaxFiles) :
        \A i, j \in 1..Len(p) : i # j => p[i] # p[j]}

\* lines 34-39: OCR_ATIVADO is fixed when the module is loaded
Init ==
    /\ fn = ""
    /\ entrada = [tipo |-> "run", arquivos_rec |-> <<>>, arquivos_desp |-> <<>>]
    /\ saida = None
    /\ OCR_ATIVADO \in BOOLEAN
    /\ AppInit

\* lines 305-310 with a folder chosen (a cancelled dialog changes nothing);
\* the label beside the button, a count, is display only
sel_rec ==
    /\ path_rec' = "/receitas"
    /\ UNCHANGED <<fn, entrada, saida, OCR_ATIVADO, path_desp, itens,
                   planilha, resumo, status, dialogo>>

\* lines 312-317
sel_desp ==
    /\ path_desp' = "/despesas"
    /\ UNCHANGED <<fn, entrada, saida, OCR_ATIVADO, path_rec, itens,
                   planilha, resumo, status, dialogo>>

\* lines 320-321: no folder chosen
run_sem_pastas ==
    /\ path_rec = None /\ path_desp = None
    /\ dialogo' = "Ops"
    /\ UNCHANGED <<fn, entrada, saida, OCR_ATIVADO, path_rec, path_desp,
                   itens, planilha, resumo, status>>

\* lines 323-324: the destination dialog cancelled
run_sem_destino ==
    /\ path_rec # None \/ path_desp # None
    /\ UNCHANGED vars

\* lines 323-351 with a destination chosen; `entrada` keeps the two file
\* lists of lines 329-330
run ==
    /\ path_rec # None \/ path_desp # None
    /\ \E arquivos_rec \in (IF path_rec # None THEN Pastas ELSE {<<>>}),
          arquivos_desp \in (IF path_desp # None THEN Pastas ELSE {<<>>}) :
           entrada' = [tipo |-> "run", arquivos_rec |-> arquivos_rec,
                       arquivos_desp |-> arquivos_desp]
    /\ itens' = itens_de_run(entrada'.arquivos_rec, entrada'.arquivos_desp,
                             OCR_ATIVADO)
    /\ planilha' = salvar_excel(itens')
    /\ resumo' = resumo_run(itens')
    /\ fn' = "run"
    /\ status' = "Processo finalizado."
    /\ dialogo' = "Sucesso"
    /\ UNCHANGED <<saida, OCR_ATIVADO, path_rec, path_desp>>

Next == sel_rec \/ sel_desp \/ run_sem_pastas \/ run_sem_destino \/ run

Spec == Init /\ [][Next]_vars

\* reading or extraction fails on the file
Falha(arquivo, ocr_ativado) ==
    LET leitura == ler_conteudo_pdf(PdfDe(arquivo), ocr_ativado)
    IN \/ leitura.exc # ""
       \/ leitura.val[2].tag \in {"FALHA", "ERRO LEITURA"}
       \/ extrair_valor(leitura.val[1]).exc # ""

Falhas == {<<a, o>> \in Nomes \X BOOLEAN : Falha(a, o)}

\* C3: a finished run holds exactly one record per input file, in input
\* order (revenue files, then expense files); a file whose reading or
\* extraction fails has its own record, not OK, and the files after it have
\* theirs; no file gives no record.
C3_UmRegistroPorArquivo ==
    fn = "run" =>
        LET arquivos == entrada.arquivos_rec \o entrada.arquivos_desp
        IN /\ Len(itens) = Len(arquivos)
           /\ \A k \in 1..Len(arquivos) :
                 /\ itens[k].file_name = arquivos[k]
                 /\ itens[k].category =
                        (IF k <= Len(entrada.arquivos_rec)
                         THEN "Receita" ELSE "Despesa")
                 /\ (<<arquivos[k], OCR_ATIVADO>> \in Falhas =>
                        itens[k].status # "OK")

\* a file that does not open comes first and the expense file after it is
\* recorded
C3_Witness ==
    /\ fn = "run"
    /\ Len(entrada.arquivos_rec) >= 1 /\ Len(entrada.arquivos_desp) >= 1
    /\ ~PdfDe(entrada.arquivos_rec[1]).abre
    /\ itens[1].status = "REVISAR"
    /\ itens[Len(itens)].file_name = "imagem.pdf"
    /\ itens[Len(itens)].category = "Despesa"

====
